---- MODULE Spec2Model ----
(***************************************************************************)
(* The Moog synthesizer page (src/app/prototypes/moog-synth/page.tsx):     *)
(* the oscilloscope effect with its requestAnimationFrame loop, the note   *)
(* bookkeeping of playNote / stopNote / onended, the Knob drag handlers,   *)
(* and the sample synthesis of drawWaveform in fixed-point arithmetic.     *)
(*                                                                         *)
(* Numbers.  A sample value v of the code is the integer v * Scale.  A     *)
(* phase t is counted in steps of 2*pi/PhaseSteps.  Frequencies are in     *)
(* hundredths of a hertz, and one unit of `clock' is the time in which     *)
(* time * freq * 0.01 advances by one phase step per hundredth of a hertz, *)
(* so that every phase the model visits is a whole number of steps.        *)
(* Divisions round towards zero.  SinTable holds the mathematical values   *)
(* of sin at the phase steps.                                              *)
(***************************************************************************)
EXTENDS Integers, Sequences, FiniteSets, TLC

\* ---------------------------------------------------------------- bounds
samples == 16        \* sample count of a frame (900 in the source, line 72)
MaxClock == 2        \* refresh ticks (values of Date.now) that are modelled
MaxEffects == 6      \* runs of the scope effect

\* ------------------------------------------------------ program constants
windowSize == 6
Scale == 1000
PhaseSteps == 8
SinTable == <<0, 707, 1000, 707, 0, -707, -1000, -707>>

\* The keys of the keyboard that are modelled, with their frequencies in
\* hundredths of a hertz (lines 697-699).
Notes == {"C4", "D4"}
NoteFreq(note) == IF note = "C4" THEN 26163 ELSE 29366

Waveforms == {"sine", "square", "sawtooth", "triangle"}
\* The Knob that is modelled: CUTOFF (lines 489-496).  The other knobs are
\* further instances of the same component.
KnobNames == {"CUTOFF"}
KnobMin(k) == 20
KnobMax(k) == 5000
PointerYs == {0, 100}

\* ------------------------------------------------------------ arithmetic
Max(a, b) == IF a >= b THEN a ELSE b
Min(a, b) == IF a <= b THEN a ELSE b
Abs(a) == IF a >= 0 THEN a ELSE -a
Sign(a) == IF a > 0 THEN 1 ELSE IF a < 0 THEN -1 ELSE 0
Div(a, b) == IF a >= 0 THEN a \div b ELSE -((-a) \div b)

RECURSIVE SumOver(_, _)
SumOver(f, S) ==
  IF S = {} THEN 0
  ELSE LET x == CHOOSE y \in S : TRUE IN f[x] + SumOver(f, S \ {x})

\* ------------------------------------------------------ sample synthesis
\* t = (i / samples) * Math.PI * 4 + time * freq * 0.01, in phase steps
Phase(i, time, freq) == (2 * PhaseSteps * i) \div samples + time * freq

\* (t / (2 * Math.PI)) % 1, times Scale
Frac(t) == (Scale * (t % PhaseSteps)) \div PhaseSteps

\* WaveSample without the default branch of the switch: sample stays 0.
WaveSampleNoDefault(wf, t) ==
  CASE wf = "sine" -> SinTable[(t % PhaseSteps) + 1]
    [] wf = "square" -> Scale * Sign(SinTable[(t % PhaseSteps) + 1])
    [] wf = "sawtooth" -> 2 * Frac(t) - Scale
    [] wf = "triangle" -> 2 * Abs(2 * Frac(t) - Scale) - Scale
    [] OTHER -> 0

WaveSample(wf, t) ==
  CASE wf = "sine" -> SinTable[(t % PhaseSteps) + 1]
    [] wf = "square" -> Scale * Sign(SinTable[(t % PhaseSteps) + 1])
    [] wf = "sawtooth" -> 2 * Frac(t) - Scale
    [] wf = "triangle" -> 2 * Abs(2 * Frac(t) - Scale) - Scale
    [] OTHER -> SinTable[(t % PhaseSteps) + 1]

\* Normalize without the division of line 110.
NormalizeNoDivide(sum, count) == sum

\* y after line 110: the sum over scopeFrequencies divided by max(1, length)
Normalize(sum, count) == Div(sum, Max(1, count))

MixedSample(i, notes, wf, time) ==
  LET s == [n \in DOMAIN notes |-> WaveSample(wf, Phase(i, time, notes[n]))]
  IN Normalize(SumOver(s, DOMAIN notes), Cardinality(DOMAIN notes))

\* FilterEffect without Math.max(0, ...).
FilterEffectNoMax(cutoff) == 5000 - cutoff

\* Math.max(0, 1 - filterCutoff / 5000), times 5000
FilterEffect(cutoff) == Max(0, 5000 - cutoff)

\* 1 - filterEffect * 0.5, times 10000
Attenuation(cutoff) == 10000 - FilterEffect(cutoff)

\* The indices the loop of line 82 fills.
RawIndices == 0..samples

\* The smoothing loop stopping one index early (i < samples).
SmoothedIndicesShort == 0..(samples - 1)

\* The indices the loop of line 123 fills.
SmoothedIndices == 0..samples

RawBuffer(mix, cutoff) ==
  [i \in RawIndices |-> Div(mix[i] * Attenuation(cutoff), 10000)]

\* The window wrapping around the ends of the buffer.
WindowOfWrap(i) == {idx % (samples + 1) : idx \in (i - windowSize)..(i + windowSize)}

\* The indices idx = i + k, k in -windowSize..windowSize, that pass line 128
WindowOf(i) == {idx \in (i - windowSize)..(i + windowSize) : idx >= 0 /\ idx <= samples}

SmoothedBuffer(r) ==
  [i \in SmoothedIndices |->
     Div(SumOver(r, WindowOf(i)), Max(1, Cardinality(WindowOf(i))))]

\* ------------------------------------------------------------------ state
VARIABLES
  mounted,             \* the MoogSynthPrototype component is mounted
  osc1Freq,            \* useState(440), line 8
  filterCutoff,        \* useState(1000), line 10
  waveform,            \* useState('sawtooth'), line 19
  pressedKeys,         \* useState(new Set()), line 20
  activeNotesVersion,  \* useState(0), line 21
  animationFrameRef,   \* useRef<number>(), line 24; 0 is undefined
  oscillatorsRef,      \* Map note -> oscillator, line 26
  gainNodesRef,        \* Map note -> gain node, line 27
  activeNotesRef,      \* Map note -> frequency, line 28
  knob,                \* isDragging, startY, startValue of each Knob
  effectDeps,          \* the values the live scope effect closed over
  effectRuns,          \* number of runs of the scope effect so far
  rafPending,          \* callbacks requested and neither run nor cancelled
  rafNext,             \* next handle of requestAnimationFrame
  clock,               \* Date.now()
  voices,              \* oscillators started and not yet ended
  oscNext,             \* next oscillator created by playNote
  canvas,              \* what the last drawWaveform left on the canvas
  frameArgs,           \* what the last drawWaveform read
  mixed,               \* y after normalisation (line 110), per index
  raw,                 \* line 81
  smoothed,            \* line 122
  attenuation,         \* 1 - filterEffect * 0.5 of the last frame (line 114)
  drawnBy              \* runs of the effect whose drawWaveform ran in the last
                       \* step that drew

reactVars == <<mounted, osc1Freq, filterCutoff, waveform, pressedKeys, activeNotesVersion>>
refVars == <<animationFrameRef, oscillatorsRef, gainNodesRef, activeNotesRef>>
schedVars == <<effectDeps, effectRuns, rafPending, rafNext, clock>>
audioVars == <<voices, oscNext>>
frameVars == <<canvas, frameArgs, mixed, raw, smoothed, attenuation, drawnBy>>
vars == <<reactVars, refVars, knob, schedVars, audioVars, frameVars>>

EmptyMap == <<>>
MapSet(m, k, v) == [x \in DOMAIN m \cup {k} |-> IF x = k THEN v ELSE m[x]]
MapDelete(m, k) == [x \in DOMAIN m \ {k} |-> m[x]]

NoArgs == [notes |-> EmptyMap, waveform |-> "none", filterCutoff |-> 0, osc1Freq |-> 0, time |-> 0]
KnobIdle == [isDragging |-> FALSE, startY |-> 0, startValue |-> 0]

\* The dependency array of the scope effect, line 171
Deps == [osc1Freq |-> osc1Freq, waveform |-> waveform,
         filterCutoff |-> filterCutoff, activeNotesVersion |-> activeNotesVersion]
NoDeps == [osc1Freq |-> 0, waveform |-> "none", filterCutoff |-> 0, activeNotesVersion |-> -1]

\* ------------------------------------------------------------ drawWaveform
\* The part of the state one execution of drawWaveform reads and writes.
Scope == [ref |-> animationFrameRef, pending |-> rafPending, next |-> rafNext,
          canvas |-> canvas, args |-> frameArgs, mixed |-> mixed, raw |-> raw,
          smoothed |-> smoothed, attenuation |-> attenuation, drawnBy |-> drawnBy]

\* RequestAnimationFrame whose handle is not stored in animationFrameRef.
RequestNotStored(s, cb) ==
  [s EXCEPT !.pending = @ \cup {[cb EXCEPT !.id = s.next]},
            !.next = @ + 1]

\* window.requestAnimationFrame(drawWaveform), line 161
RequestAnimationFrame(s, cb) ==
  [s EXCEPT !.pending = @ \cup {[cb EXCEPT !.id = s.next]},
            !.next = @ + 1,
            !.ref = s.next]

\* window.cancelAnimationFrame(handle)
CancelAnimationFrame(pending, handle) == {cb \in pending : cb.id # handle}

\* lines 77-78
ScopeFrequencies(notes, osc1) ==
  IF Cardinality(DOMAIN notes) > 0 THEN notes ELSE [n \in {"osc1"} |-> 100 * osc1]

\* shouldVisualize that never reports an idle scope.
ShouldVisualizeAlways(notes) == TRUE

\* line 45
ShouldVisualize(notes) == Cardinality(DOMAIN notes) > 0

\* What one execution of drawWaveform reads.
Args(cb, notes, time) ==
  [notes |-> notes, waveform |-> cb.waveform, filterCutoff |-> cb.filterCutoff,
   osc1Freq |-> cb.osc1Freq, time |-> time]

\* The frame of lines 53-159 for the given inputs.
RenderFrame(s, cb, notes, time) ==
  LET freqs == ScopeFrequencies(notes, cb.osc1Freq)
      mix == [i \in RawIndices |-> MixedSample(i, freqs, cb.waveform, time)]
      r == RawBuffer(mix, cb.filterCutoff)
  IN [s EXCEPT !.canvas = "curve",
               !.mixed = mix,
               !.raw = r,
               !.smoothed = SmoothedBuffer(r),
               !.attenuation = Attenuation(cb.filterCutoff)]

\* One execution of drawWaveform (lines 41-162) of the effect run cb.run.
DrawWaveform(s, cb, notes, time) ==
  LET read == [s EXCEPT !.args = Args(cb, notes, time),
                        !.drawnBy = @ \cup {cb.run}]
  IN IF ~ShouldVisualize(notes)
     THEN [read EXCEPT !.canvas = "blank", !.mixed = EmptyMap, !.raw = EmptyMap,
                       !.smoothed = EmptyMap, !.attenuation = 0]
     ELSE RequestAnimationFrame(RenderFrame(read, cb, notes, time), cb)

\* Cleanup that cancels nothing.
CleanupNoCancel(s) == s

\* Cleanup that also clears animationFrameRef.
CleanupClearsRef(s) ==
  IF s.ref # 0
  THEN [s EXCEPT !.pending = CancelAnimationFrame(s.pending, s.ref), !.ref = 0]
  ELSE s

\* The cleanup of the scope effect, lines 166-170
Cleanup(s) ==
  IF s.ref # 0 THEN [s EXCEPT !.pending = CancelAnimationFrame(s.pending, s.ref)] ELSE s

\* The callback drawWaveform of the effect run `run` closing over deps d.
Closure(run, d) == [id |-> 0, run |-> run, osc1Freq |-> d.osc1Freq,
                    waveform |-> d.waveform, filterCutoff |-> d.filterCutoff]

SetScope(s) ==
  /\ animationFrameRef' = s.ref
  /\ rafPending' = s.pending
  /\ rafNext' = s.next
  /\ canvas' = s.canvas
  /\ frameArgs' = s.args
  /\ mixed' = s.mixed
  /\ raw' = s.raw
  /\ smoothed' = s.smoothed
  /\ attenuation' = s.attenuation
  /\ drawnBy' = s.drawnBy

\* The callbacks of one refresh, in the order they were requested.
RECURSIVE RunCallbacks(_, _, _, _)
RunCallbacks(s, cbs, notes, time) ==
  IF cbs = {} THEN s
  ELSE LET cb == CHOOSE c \in cbs : \A d \in cbs : c.id <= d.id
       IN RunCallbacks(DrawWaveform(s, cb, notes, time), cbs \ {cb}, notes, time)

\* ------------------------------------------------------------------- Init
Init ==
  /\ mounted = FALSE
  /\ osc1Freq = 440
  /\ filterCutoff = 1000
  /\ waveform = "sawtooth"
  /\ pressedKeys = {}
  /\ activeNotesVersion = 0
  /\ animationFrameRef = 0
  /\ oscillatorsRef = EmptyMap
  /\ gainNodesRef = EmptyMap
  /\ activeNotesRef = EmptyMap
  /\ knob = [k \in KnobNames |-> KnobIdle]
  /\ effectDeps = NoDeps
  /\ effectRuns = 0
  /\ rafPending = {}
  /\ rafNext = 1
  /\ clock = 0
  /\ voices = {}
  /\ oscNext = 1
  /\ canvas = "empty"
  /\ frameArgs = NoArgs
  /\ mixed = EmptyMap
  /\ raw = EmptyMap
  /\ smoothed = EmptyMap
  /\ attenuation = 0
  /\ drawnBy = {}

\* ---------------------------------------------------------------- actions
\* A new instance of the component is mounted: fresh state and refs, then the
\* scope effect runs for the first time (lines 34-164).  The refs of the
\* previous instance are followed until its oscillators have ended; the next
\* instance is modelled from then on.
Mount ==
  /\ ~mounted
  /\ voices = {}
  /\ effectRuns < MaxEffects
  /\ mounted' = TRUE
  /\ osc1Freq' = 440
  /\ filterCutoff' = 1000
  /\ waveform' = "sawtooth"
  /\ pressedKeys' = {}
  /\ activeNotesVersion' = 0
  /\ oscillatorsRef' = EmptyMap
  /\ gainNodesRef' = EmptyMap
  /\ activeNotesRef' = EmptyMap
  /\ knob' = [k \in KnobNames |-> KnobIdle]
  /\ effectRuns' = effectRuns + 1
  /\ effectDeps' = [osc1Freq |-> 440, waveform |-> "sawtooth",
                    filterCutoff |-> 1000, activeNotesVersion |-> 0]
  /\ SetScope(DrawWaveform([Scope EXCEPT !.ref = 0, !.drawnBy = {}],
                           Closure(effectRuns + 1, effectDeps'), EmptyMap, clock))
  /\ UNCHANGED <<clock, audioVars>>

\* A dependency of line 171 differs from its value at the last run.
EffectDue == mounted /\ Deps # effectDeps /\ effectRuns < MaxEffects

\* A dependency of line 171 changed: the cleanup of the previous run, then the
\* effect again with the new values.
RunEffect ==
  /\ EffectDue
  /\ effectRuns' = effectRuns + 1
  /\ effectDeps' = Deps
  /\ SetScope(DrawWaveform(Cleanup([Scope EXCEPT !.drawnBy = {}]),
                           Closure(effectRuns + 1, Deps), activeNotesRef, clock))
  /\ UNCHANGED <<reactVars, oscillatorsRef, gainNodesRef, activeNotesRef, knob,
                 clock, audioVars>>

\* Unmount: the cleanup of the scope effect (lines 166-170) and of the audio
\* effect (lines 208-220).  React discards the state of the instance and of
\* its Knobs; the refs stay as the cleanups leave them.  The oscillators are
\* stopped and forgotten by the maps, their onended handlers are still to
\* come and still hold the refs of this instance.
Unmount ==
  /\ mounted
  /\ mounted' = FALSE
  /\ rafPending' = Cleanup(Scope).pending
  /\ animationFrameRef' = Cleanup(Scope).ref
  /\ oscillatorsRef' = EmptyMap
  /\ gainNodesRef' = EmptyMap
  /\ effectDeps' = NoDeps
  /\ osc1Freq' = 440
  /\ filterCutoff' = 1000
  /\ waveform' = "sawtooth"
  /\ pressedKeys' = {}
  /\ activeNotesVersion' = 0
  /\ knob' = [k \in KnobNames |-> KnobIdle]
  /\ UNCHANGED <<activeNotesRef, effectRuns, rafNext, clock, audioVars, frameVars>>

\* One display refresh: the clock advances and every pending callback runs.
Tick ==
  /\ clock < MaxClock
  /\ clock' = clock + 1
  /\ IF rafPending = {}
     THEN UNCHANGED <<animationFrameRef, rafPending, rafNext, frameVars>>
     ELSE SetScope(RunCallbacks([Scope EXCEPT !.pending = {}, !.drawnBy = {}],
                                rafPending, activeNotesRef, clock + 1))
  /\ UNCHANGED <<reactVars, oscillatorsRef, gainNodesRef, activeNotesRef, knob,
                 effectDeps, effectRuns, audioVars>>

\* React runs the effects of a render before it handles the next update, so an
\* event handler finds the scope effect run for the current values; only
\* refresh ticks and the unmount come between a change and the effect's re-run.
Ready == mounted /\ Deps = effectDeps

\* Every oscillator that has not ended will end (line 303) and its onended
\* will bump activeNotesVersion, which re-runs the scope effect once more.
PendingEnds == Cardinality(voices)

\* A handler that changes a dependency of the scope effect is modelled while
\* the effect can still re-run within MaxEffects, for this change and for
\* the endings still to come.
CanRerun == Ready /\ effectRuns + PendingEnds < MaxEffects

\* A key press starts an oscillator: one more re-run now and one at its end.
CanPlay == CanRerun /\ effectRuns + PendingEnds + 1 < MaxEffects

\* playNote(frequency, note), lines 231-318: a new oscillator and gain node
\* are stored under the note and the note becomes active.
PlayNote(frequency, note) ==
  /\ voices' = voices \cup {[id |-> oscNext, note |-> note]}
  /\ oscNext' = oscNext + 1
  /\ oscillatorsRef' = MapSet(oscillatorsRef, note, oscNext)
  /\ gainNodesRef' = MapSet(gainNodesRef, note, oscNext)
  /\ activeNotesRef' = MapSet(activeNotesRef, note, frequency)
  /\ activeNotesVersion' = activeNotesVersion + 1

\* stopNote that also forgets the oscillator and the gain node of the note.
StopNoteForgets(note) ==
  /\ IF note \in DOMAIN activeNotesRef
     THEN /\ activeNotesRef' = MapDelete(activeNotesRef, note)
          /\ activeNotesVersion' = activeNotesVersion + 1
     ELSE UNCHANGED <<activeNotesRef, activeNotesVersion>>
  /\ oscillatorsRef' = MapDelete(oscillatorsRef, note)
  /\ gainNodesRef' = MapDelete(gainNodesRef, note)
  /\ UNCHANGED <<voices, oscNext>>

\* stopNote(note), lines 321-334
StopNote(note) ==
  /\ IF note \in DOMAIN activeNotesRef
     THEN /\ activeNotesRef' = MapDelete(activeNotesRef, note)
          /\ activeNotesVersion' = activeNotesVersion + 1
     ELSE UNCHANGED <<activeNotesRef, activeNotesVersion>>
  /\ UNCHANGED <<oscillatorsRef, gainNodesRef, voices, oscNext>>

\* handleKeyPress(note, frequency), lines 337-342
HandleKeyPress(note) ==
  /\ CanPlay
  /\ note \notin pressedKeys
  /\ pressedKeys' = pressedKeys \cup {note}
  /\ PlayNote(NoteFreq(note), note)
  /\ UNCHANGED <<mounted, osc1Freq, filterCutoff, waveform, animationFrameRef,
                 knob, schedVars, frameVars>>

\* handleKeyRelease(note), lines 345-354
HandleKeyRelease(note) ==
  /\ CanRerun
  /\ note \in pressedKeys
  /\ pressedKeys' = pressedKeys \ {note}
  /\ StopNote(note)
  /\ UNCHANGED <<mounted, osc1Freq, filterCutoff, waveform, animationFrameRef,
                 knob, schedVars, frameVars>>

\* onended that leaves the active-note entry to stopNote.
OnEndedKeepsActive(v) ==
  /\ v \in voices
  /\ mounted => Ready
  /\ voices' = voices \ {v}
  /\ oscillatorsRef' = MapDelete(oscillatorsRef, v.note)
  /\ gainNodesRef' = MapDelete(gainNodesRef, v.note)
  /\ activeNotesRef' = activeNotesRef
  /\ activeNotesVersion' = IF mounted THEN activeNotesVersion + 1
                                      ELSE activeNotesVersion
  /\ UNCHANGED <<mounted, osc1Freq, filterCutoff, waveform, pressedKeys,
                 animationFrameRef, knob, schedVars, oscNext, frameVars>>

\* oscillator.onended of the oscillator v, lines 312-317.  After the unmount
\* the handler still deletes from the refs it holds; the state update of a
\* discarded instance has no effect.
OnEnded(v) ==
  /\ v \in voices
  /\ mounted => Ready
  /\ voices' = voices \ {v}
  /\ oscillatorsRef' = MapDelete(oscillatorsRef, v.note)
  /\ gainNodesRef' = MapDelete(gainNodesRef, v.note)
  /\ activeNotesRef' = MapDelete(activeNotesRef, v.note)
  /\ activeNotesVersion' = IF mounted THEN activeNotesVersion + 1
                                      ELSE activeNotesVersion
  /\ UNCHANGED <<mounted, osc1Freq, filterCutoff, waveform, pressedKeys,
                 animationFrameRef, knob, schedVars, oscNext, frameVars>>

\* onClick of a waveform button, lines 441-464
SetWaveform(w) ==
  /\ CanRerun
  /\ w # waveform
  /\ waveform' = w
  /\ UNCHANGED <<mounted, osc1Freq, filterCutoff, pressedKeys, activeNotesVersion,
                 refVars, knob, schedVars, audioVars, frameVars>>

\* ------------------------------------------------------------------- Knob
KnobValue(k) == filterCutoff

\* Clamp without Math.min(max, ...).
ClampNoMax(lo, hi, v) == Max(lo, v)

\* Clamp without Math.max(min, ...).
ClampNoMin(lo, hi, v) == Min(hi, v)

\* Math.max(min, Math.min(max, v)), line 650
Clamp(lo, hi, v) == Max(lo, Min(hi, v))

\* newValue of handleMouseMove, lines 647-650
NewValue(k, clientY) ==
  LET deltaY == knob[k].startY - clientY
      range == KnobMax(k) - KnobMin(k)
      change == Div(deltaY * range, 100)
  IN Clamp(KnobMin(k), KnobMax(k), knob[k].startValue + change)

\* handleMouseDown of the knob k, lines 638-642; the pointer is up before
KnobMouseDown(k, clientY) ==
  /\ Ready
  /\ \A j \in KnobNames : ~knob[j].isDragging
  /\ knob' = [knob EXCEPT ![k] = [isDragging |-> TRUE, startY |-> clientY,
                                  startValue |-> KnobValue(k)]]
  /\ UNCHANGED <<reactVars, refVars, schedVars, audioVars, frameVars>>

\* handleMouseMove of the knob being dragged, lines 645-652
KnobMouseMove(k, clientY) ==
  /\ CanRerun
  /\ knob[k].isDragging
  /\ filterCutoff' = NewValue(k, clientY)
  /\ UNCHANGED <<mounted, osc1Freq, waveform, pressedKeys, activeNotesVersion, refVars, knob,
                 schedVars, audioVars, frameVars>>

\* handleMouseUp, lines 654-656
KnobMouseUp(k) ==
  /\ Ready
  /\ knob[k].isDragging
  /\ knob' = [knob EXCEPT ![k].isDragging = FALSE]
  /\ UNCHANGED <<reactVars, refVars, schedVars, audioVars, frameVars>>

\* ------------------------------------------------------------------- Spec
Next ==
  \/ Mount
  \/ RunEffect
  \/ Unmount
  \/ Tick
  \/ \E note \in Notes : HandleKeyPress(note)
  \/ \E note \in Notes : HandleKeyRelease(note)
  \/ \E v \in voices : OnEnded(v)
  \/ \E w \in Waveforms : SetWaveform(w)
  \/ \E k \in KnobNames, y \in PointerYs : KnobMouseDown(k, y)
  \/ \E k \in KnobNames, y \in PointerYs : KnobMouseMove(k, y)
  \/ \E k \in KnobNames : KnobMouseUp(k)

Spec == Init /\ [][Next]_vars

\* ------------------------------------------------------------- fairness
\* The oscillators playNote can have started within MaxEffects.
Oscillators == [id : 1..MaxEffects, note : Notes]

\* RunEffect as it shows on effectRuns: of the steps of Next only RunEffect
\* counts a run while the component is mounted.
Rerun == EffectDue /\ effectRuns' = effectRuns + 1

\* React runs the effects of every committed render, and the audio clock
\* advances: every oscillator reaches the stop time scheduled at line 303
\* (or the stop of the unmount cleanup, line 212) and its onended is called.
Fairness ==
  /\ WF_effectRuns(Rerun)
  /\ \A v \in Oscillators : WF_vars(OnEnded(v))

SpecLive == Spec /\ Fairness

\* -------------------------------------------------- sample synthesis alone
\* The synthesis of one frame (lines 72-134) applied to inputs drawn from
\* bounded sets, among them a waveform outside the enumeration and cutoffs
\* at and beyond the ends of the knob's range.
FrameWaveforms == Waveforms \cup {"noise"}
FrameCutoffs == {0, 20, 1000, 5000, 6000}
FrameNotes == {[n \in S |-> NoteFreq(n)] : S \in (SUBSET Notes) \ {{}}}

InitFrame ==
  /\ mounted = TRUE
  /\ osc1Freq = 440
  /\ filterCutoff \in FrameCutoffs
  /\ waveform \in FrameWaveforms
  /\ pressedKeys = {}
  /\ activeNotesVersion = 0
  /\ animationFrameRef = 0
  /\ oscillatorsRef = EmptyMap
  /\ gainNodesRef = EmptyMap
  /\ activeNotesRef \in FrameNotes
  /\ knob = [k \in KnobNames |-> KnobIdle]
  /\ effectDeps = Deps
  /\ effectRuns = 1
  /\ rafPending = {}
  /\ rafNext = 1
  /\ clock \in 0..MaxClock
  /\ voices = {}
  /\ oscNext = 1
  /\ canvas = "empty"
  /\ frameArgs = NoArgs
  /\ mixed = EmptyMap
  /\ raw = EmptyMap
  /\ smoothed = EmptyMap
  /\ attenuation = 0
  /\ drawnBy = {}

Synthesize ==
  /\ canvas = "empty"
  /\ LET cb == Closure(effectRuns, Deps)
         s == RenderFrame([Scope EXCEPT !.args = Args(cb, activeNotesRef, clock)],
                          cb, activeNotesRef, clock)
     IN SetScope(s)
  /\ UNCHANGED <<reactVars, oscillatorsRef, gainNodesRef, activeNotesRef, knob,
                 effectDeps, effectRuns, clock, audioVars>>

NextFrame == Synthesize

SpecFrame == InitFrame /\ [][NextFrame]_vars

\* ----------------------------------------------------------------- claims
\* A refresh in which a drawWaveform ran.
TickDrew == clock' # clock /\ rafPending # {}

\* C1: after the cleanup of the scope effect has run, no drawWaveform of that
\* effect runs again: a refresh tick that changes the surface does so while
\* the view is mounted, and only the drawWaveform of the live effect ran.
C1_NoDrawAfterCleanup ==
  [][(clock' # clock /\ (frameVars' # frameVars \/ rafPending # {}))
       => (mounted /\ drawnBy' = {effectRuns})]_vars

\* A curve was drawn (so a callback was requested), the view was torn down,
\* and a later refresh tick left the surface alone.
C1_Witness ==
  /\ ~mounted
  /\ canvas = "curve"
  /\ clock > frameArgs.time
  /\ rafPending = {}

\* C2: at most one drawWaveform callback is pending at any moment.
C2_AtMostOnePending == Cardinality(rafPending) <= 1

C2_Witness ==
  /\ mounted
  /\ Cardinality(rafPending) = 1
  /\ effectRuns >= 3
  /\ clock >= 1
  /\ frameArgs.time = clock

\* C3 as claimed: every execution of drawWaveform while the view is mounted
\* ends by requesting exactly one next-frame callback, idle frames included.
C3_EveryFrameReschedules ==
  [][((effectRuns' # effectRuns \/ TickDrew) /\ mounted')
       => (/\ Cardinality(rafPending') = 1
           /\ rafNext' = rafNext + 1
           /\ animationFrameRef' = rafNext)]_vars

\* C4 as claimed: a frame rendered with no active note draws the curve of the
\* fallback frequency osc1Freq, with the buffers of the active set {osc1Freq}.
C4_FallbackExact ==
  (canvas # "empty" /\ DOMAIN frameArgs.notes = {})
    => LET f == [n \in {"osc1"} |-> 100 * frameArgs.osc1Freq]
           mix == [i \in 0..samples |->
                     MixedSample(i, f, frameArgs.waveform, frameArgs.time)]
       IN /\ canvas = "curve"
          /\ mixed = mix
          /\ raw = RawBuffer(mix, frameArgs.filterCutoff)
          /\ smoothed = SmoothedBuffer(raw)

\* The handle in animationFrameRef names no pending callback: it has fired
\* or was cancelled.
StaleHandle ==
  animationFrameRef # 0 /\ \A cb \in rafPending : cb.id # animationFrameRef

\* C5: the cleanup issued with a stale handle changes nothing: at unmount the
\* ref, the pending callbacks, the handle counter and the surface stay as
\* they are, and at a re-run no pending callback is cancelled.
C5_CleanupIdempotent ==
  [][StaleHandle =>
       /\ (mounted /\ ~mounted')
            => UNCHANGED <<animationFrameRef, rafPending, rafNext, frameVars>>
       /\ (effectRuns' # effectRuns) => rafPending \subseteq rafPending']_vars

\* Unmounted after an idle frame: the cleanup was issued with the handle of a
\* callback that had fired or been cancelled.
C5_Witness ==
  /\ ~mounted
  /\ animationFrameRef # 0
  /\ canvas = "blank"

\* C6: with a non-empty set of active frequencies, the mixed sample of every
\* index 0..samples lies in [-1, 1] before the filter attenuation.
C6_MixedInRange ==
  canvas = "curve"
    => /\ DOMAIN mixed = 0..samples
       /\ \A i \in DOMAIN mixed : mixed[i] >= -Scale /\ mixed[i] <= Scale

\* Two notes sound together and the mix reaches the end of the range.
C6_Witness ==
  /\ canvas = "curve"
  /\ Cardinality(DOMAIN frameArgs.notes) = 2
  /\ \E i \in DOMAIN mixed : Abs(mixed[i]) = Scale

\* C7: in every frame that draws a curve, smoothed has the length of raw,
\* samples + 1 entries with every index 0..samples defined.
C7_SameLength ==
  canvas = "curve"
    => /\ DOMAIN raw = 0..samples
       /\ DOMAIN smoothed = DOMAIN raw

C7_Witness ==
  /\ canvas = "curve"
  /\ Cardinality(DOMAIN frameArgs.notes) = 2
  /\ frameArgs.waveform = "square"
  /\ Cardinality(DOMAIN smoothed) = samples + 1

\* C8: the attenuation factor is 1 for every filterCutoff >= 5000 and 0.5 at
\* filterCutoff = 0 (the factor in ten-thousandths).
C8_AttenuationEnds ==
  canvas = "curve"
    => /\ frameArgs.filterCutoff >= 5000 => attenuation = 10000
       /\ frameArgs.filterCutoff = 0 => attenuation = 5000

C8_Witness ==
  /\ canvas = "curve"
  /\ frameArgs.filterCutoff = 0
  /\ attenuation = 5000
  /\ \E i \in DOMAIN raw : raw[i] # 0 /\ raw[i] = Div(mixed[i], 2)

C10_UnknownIsSine ==
  (canvas = "curve" /\ frameArgs.waveform \notin Waveforms)
    => mixed = [i \in 0..samples |->
                  MixedSample(i, frameArgs.notes, "sine", frameArgs.time)]

C10_Witness ==
  /\ canvas = "curve"
  /\ frameArgs.waveform = "noise"
  /\ \E i \in DOMAIN mixed : mixed[i] # 0

\* f[lo] + ... + f[hi]
RECURSIVE SumRange(_, _, _)
SumRange(f, lo, hi) == IF lo > hi THEN 0 ELSE f[lo] + SumRange(f, lo + 1, hi)

\* C11: smoothed[i] is the mean of exactly the raw entries of the indices
\* max(0, i - w)..min(samples, i + w): at least one term, 2w + 1 terms at
\* interior indices, fewer at the edges, no wrap-around and no padding.
C11_TruncatedMean ==
  canvas = "curve"
    => \A i \in 0..samples :
         LET lo == Max(0, i - windowSize)
             hi == Min(samples, i + windowSize)
             terms == hi - lo + 1
         IN /\ terms >= 1
            /\ (i >= windowSize /\ i + windowSize <= samples)
                 => terms = 2 * windowSize + 1
            /\ (i < windowSize \/ i + windowSize > samples)
                 => terms < 2 * windowSize + 1
            /\ smoothed[i] = Div(SumRange(raw, lo, hi), terms)

\* A curve whose smoothing differs from the raw samples at an edge index and
\* at an interior index.
C11_Witness ==
  /\ canvas = "curve"
  /\ samples > 2 * windowSize
  /\ smoothed[0] # raw[0]
  /\ smoothed[windowSize] # raw[windowSize]
  /\ smoothed[0] # smoothed[windowSize]

\* C12: whatever the pointer does, the value the Knob hands to onChange lies
\* in [min, max]: filterCutoff, the value the live effect closed over and the
\* value the renderer read are all within [20, 5000].
C12_CutoffInRange ==
  /\ filterCutoff >= 20 /\ filterCutoff <= 5000
  /\ mounted => (effectDeps.filterCutoff >= 20 /\ effectDeps.filterCutoff <= 5000)
  /\ canvas # "empty"
       => (frameArgs.filterCutoff >= 20 /\ frameArgs.filterCutoff <= 5000)

\* The knob is dragged from 1000 past the top of its range and the renderer
\* has read the clamped value.
C12_Witness ==
  /\ knob["CUTOFF"].isDragging
  /\ knob["CUTOFF"].startValue = 1000
  /\ filterCutoff = 5000
  /\ canvas = "curve"
  /\ frameArgs.filterCutoff = 5000

\* A step of handleKeyRelease(note): the key leaves pressedKeys of the mounted
\* instance, and stopNote(note) is called.
ReleaseStep(note) ==
  mounted /\ mounted' /\ note \in pressedKeys /\ note \notin pressedKeys'

\* The frame of stopNote(note) in such a step.
StopNoteFrame(note) ==
  /\ note \notin DOMAIN activeNotesRef'
  /\ activeNotesRef' = MapDelete(activeNotesRef, note)
  /\ activeNotesVersion' = activeNotesVersion
                             + (IF note \in DOMAIN activeNotesRef THEN 1 ELSE 0)
  /\ oscillatorsRef' = oscillatorsRef
  /\ gainNodesRef' = gainNodesRef

\* The note loses its entry of oscillatorsRef or of gainNodesRef in the step.
EntryRemoved(note) ==
  \/ note \in DOMAIN oscillatorsRef /\ note \notin DOMAIN oscillatorsRef'
  \/ note \in DOMAIN gainNodesRef /\ note \notin DOMAIN gainNodesRef'

\* An oscillator started for the note ends in the step.
OscillatorEnds(note) == \E v \in voices : v.note = note /\ v \notin voices'

\* The step is the unmount of the component.
UnmountStep == mounted /\ ~mounted'

\* C13 as stated: stopNote(note) removes the note from activeNotesRef at once,
\* bumps activeNotesVersion only if the note was present and leaves the
\* entries of oscillatorsRef and gainNodesRef as they are; an entry of these
\* two maps is removed only in a step in which an oscillator of that note
\* ends.
C13_RemovedOnlyAtEnd ==
  [][\A note \in Notes :
       /\ ReleaseStep(note) => StopNoteFrame(note)
       /\ EntryRemoved(note) => OscillatorEnds(note)]_vars

\* C13, amended: the same frame of stopNote(note); an entry of oscillatorsRef
\* or gainNodesRef is removed only in a step in which an oscillator of that
\* note ends, or by the cleanup of the unmount, which clears both maps.
C13_StopNoteFrame ==
  [][\A note \in Notes :
       /\ ReleaseStep(note) => StopNoteFrame(note)
       /\ EntryRemoved(note) => (OscillatorEnds(note) \/ UnmountStep)]_vars

C13_Witness ==
  /\ mounted
  /\ \E note \in Notes :
       /\ note \notin pressedKeys
       /\ note \notin DOMAIN activeNotesRef
       /\ note \in DOMAIN oscillatorsRef
       /\ note \in DOMAIN gainNodesRef
       /\ \E v \in voices : v.note = note /\ oscillatorsRef[note] = v.id
  /\ activeNotesVersion = 2
  /\ effectDeps.activeNotesVersion = 2

\* C14: whenever the component is mounted and the scope effect has run for
\* the current values of its dependencies, so after the latest mutation of
\* activeNotesRef, a drawWaveform callback is pending if and only if
\* activeNotesRef is non-empty, and the pending one is the callback stored in
\* animationFrameRef.
C14_PendingIffActive ==
  Ready =>
    /\ rafPending # {} <=> DOMAIN activeNotesRef # {}
    /\ \A cb \in rafPending : cb.id = animationFrameRef

\* The loop has started with a note and stopped again when the note ended.
C14_Witness ==
  /\ Ready
  /\ rafPending = {}
  /\ DOMAIN activeNotesRef = {}
  /\ canvas = "blank"
  /\ oscNext > 1
  /\ voices = {}
  /\ clock > 0
  /\ rafNext > 1

\* The oscillator v ends in the step while the component stays mounted.
EndStep(v) == mounted /\ mounted' /\ v \in voices /\ v \notin voices'

\* The oscillator v is the one stored under its note.
Registered(v) == v.note \in DOMAIN oscillatorsRef /\ oscillatorsRef[v.note] = v.id

\* The note has the same entry, or none, in m and in n.
SameEntry(m, n, note) ==
  /\ note \in DOMAIN m <=> note \in DOMAIN n
  /\ note \in DOMAIN m => m[note] = n[note]

\* C15: when an oscillator ends that is no longer the one registered for its
\* note, because the note has been played again since, the entries of the
\* note in oscillatorsRef, gainNodesRef and activeNotesRef stay as the later
\* playNote left them.
C15_EndKeepsLaterEntries ==
  [][\A v \in voices :
       (EndStep(v) /\ ~Registered(v)) =>
          /\ SameEntry(oscillatorsRef, oscillatorsRef', v.note)
          /\ SameEntry(gainNodesRef, gainNodesRef', v.note)
          /\ SameEntry(activeNotesRef, activeNotesRef', v.note)]_vars

\* The note has an entry in one of the three maps.
Stored(note) ==
  \/ note \in DOMAIN activeNotesRef
  \/ note \in DOMAIN oscillatorsRef
  \/ note \in DOMAIN gainNodesRef

\* C16: a note that playNote has stored is eventually in none of
\* activeNotesRef, oscillatorsRef and gainNodesRef, whether or not its key is
\* released; and once the key presses have stopped, the three maps are
\* eventually empty and stay empty.
C16_EveryNoteRemoved ==
  /\ \A note \in Notes : Stored(note) ~> ~Stored(note)
  /\ <>[][\A note \in Notes : ~(note \notin pressedKeys /\ note \in pressedKeys')]_vars
       => <>[](\A note \in Notes : ~Stored(note))

\* The key is still held and its note is gone from the three maps, without
\* an unmount: the oscillator has ended.
C16_Witness ==
  /\ mounted
  /\ \E note \in Notes : note \in pressedKeys /\ ~Stored(note)
  /\ voices = {}
  /\ oscNext = 2

====
